---- MODULE Spec2Model ----
(***************************************************************************)
(* Transfer engine of the wallet service: Store.ExecuteTransfer (db.go)     *)
(* running as concurrent calls against one PostgreSQL database whose schema *)
(* and seed rows are seed.sql.                                              *)
(*                                                                          *)
(* The database is modelled by its committed rows (wallets, ledger), the    *)
(* row locks taken by SELECT ... FOR UPDATE / UPDATE (lock), the rows each   *)
(* open transaction has written but not committed (txEntries, txBal) and    *)
(* the BIGSERIAL sequence of ledger_entries.id (ledgerSeq).  Each call is a  *)
(* process whose position in ExecuteTransfer is pc[t].                       *)
(***************************************************************************)
EXTENDS Integers, Sequences, FiniteSets, TLC

\* ------------------------------------------------------------------ bounds
\* Number of concurrent ExecuteTransfer calls.
NumCalls == 2

Procs == 1..NumCalls

\* ------------------------------------------------------- schema and seed rows
\* wallets.id of the nine seeded wallets.
WalletIds == 1..9

\* Initial supply of each treasury wallet (wallets 1..3).
TreasurySupply == 100000000

\* The wallets rows as first inserted by the seed, before its four seed
\* transfers are applied.
SeedFunding == [w \in WalletIds |-> IF w \in 1..3 THEN TreasurySupply ELSE 0]

\* The eight seeded ledger_entries rows.  tx_group_id a0000000-...-00000000000n
\* is written n; ids are the BIGSERIAL values 1..8 in insertion order.
SeedLedger ==
  { [id |-> 1, gid |-> 1, key |-> "seed-alice-gold",     wallet |-> 1, type |-> "DEBIT",  amount |-> 1000, txType |-> "BONUS"],
    [id |-> 2, gid |-> 1, key |-> "seed-alice-gold",     wallet |-> 4, type |-> "CREDIT", amount |-> 1000, txType |-> "BONUS"],
    [id |-> 3, gid |-> 2, key |-> "seed-alice-diamonds", wallet |-> 1, type |-> "DEBIT",  amount |-> 500,  txType |-> "BONUS"],
    [id |-> 4, gid |-> 2, key |-> "seed-alice-diamonds", wallet |-> 5, type |-> "CREDIT", amount |-> 500,  txType |-> "BONUS"],
    [id |-> 5, gid |-> 3, key |-> "seed-bob-gold",       wallet |-> 1, type |-> "DEBIT",  amount |-> 750,  txType |-> "BONUS"],
    [id |-> 6, gid |-> 3, key |-> "seed-bob-gold",       wallet |-> 7, type |-> "CREDIT", amount |-> 750,  txType |-> "BONUS"],
    [id |-> 7, gid |-> 4, key |-> "seed-bob-loyalty",    wallet |-> 1, type |-> "DEBIT",  amount |-> 300,  txType |-> "BONUS"],
    [id |-> 8, gid |-> 4, key |-> "seed-bob-loyalty",    wallet |-> 9, type |-> "CREDIT", amount |-> 300,  txType |-> "BONUS"] }

\* Sum of the amounts of a finite set of ledger rows.
RECURSIVE SumAmount(_)
SumAmount(S) ==
  IF S = {} THEN 0
  ELSE LET e == CHOOSE x \in S : TRUE IN e.amount + SumAmount(S \ {e})

Credits(L, w) == SumAmount({e \in L : e.wallet = w /\ e.type = "CREDIT"})
Debits(L, w)  == SumAmount({e \in L : e.wallet = w /\ e.type = "DEBIT"})

\* wallets.balance after the seed script: the funding row, then the seed's
\* "UPDATE wallets SET balance = balance -/+ amount" statements, one pair per
\* seeded transfer.
SeedBalance ==
  [w \in WalletIds |-> SeedFunding[w] + Credits(SeedLedger, w) - Debits(SeedLedger, w)]

\* CHECK (balance >= 0) on wallets.balance.
CheckBalance(b) == b >= 0

\* ------------------------------------------------------------------- inputs
\* Wallet identifiers passed to ExecuteTransfer: the gold treasury, Bob's
\* loyalty wallet (balance 300) and an identifier with no wallets row.
ArgWallets == {1, 9, 10}
ArgAmounts == {0, 200}
ArgKeys    == {"", "k1", "k2"}
ArgTxTypes == {"SPEND"}

NoResp == [status |-> "none", err |-> "", gid |-> 0, iKey |-> "", entries |-> << >>]
NoReq  == [fromID |-> 0, toID |-> 0, amt |-> 0, iKey |-> "", txType |-> ""]

VARIABLES
  wallets,    \* committed wallets.balance, by wallets.id
  ledger,     \* committed ledger_entries rows
  ledgerSeq,  \* last value drawn from ledger_entries_id_seq
  lock,       \* wallets.id -> the calls whose transaction holds the row lock
  pc,         \* position of each call in ExecuteTransfer
  req,        \* arguments of each call
  fstBal,     \* balance scanned by the first SELECT ... FOR UPDATE
  sndBal,     \* balance scanned by the second SELECT ... FOR UPDATE
  txEntries,  \* rows inserted by the call's open transaction: <<deb, cred>>
  txBal,      \* wallets rows updated by the call's open transaction
  resp        \* what the call returned

vars == <<wallets, ledger, ledgerSeq, lock, pc, req, fstBal, sndBal, txEntries, txBal, resp>>

dbVars == <<wallets, ledger>>

Init ==
  /\ wallets = SeedBalance
  /\ ledger = SeedLedger
  /\ ledgerSeq = Cardinality(SeedLedger)
  /\ lock = [w \in WalletIds |-> {}]
  /\ pc = [t \in Procs |-> "idle"]
  /\ req = [t \in Procs |-> NoReq]
  /\ fstBal = [t \in Procs |-> 0]
  /\ sndBal = [t \in Procs |-> 0]
  /\ txEntries = [t \in Procs |-> << >>]
  /\ txBal = [t \in Procs |-> << >>]
  /\ resp = [t \in Procs |-> NoResp]

\* ------------------------------------------------------------ error values
ErrInsufficientBalance == "insufficient balance"
ErrWalletNotFound      == "wallet not found"
ErrInvalidAmount       == "amount must be positive"
ErrMissingIdempotency  == "idempotency_key is required"
\* fmt.Errorf-wrapped database errors.
ErrInsertDebit  == "insert debit: unique_violation"
ErrInsertCredit == "insert credit: unique_violation"
ErrUpdateFrom   == "update from-wallet: check_violation"
ErrUpdateTo     == "update to-wallet: check_violation"
\* Any other failure of a statement: connection loss, cancelled context,
\* expired deadline.
ErrStore        == "store failure"

ErrResp(e) == [status |-> "error", err |-> e, gid |-> 0, iKey |-> "", entries |-> << >>]

\* ----------------------------------------------------------------- helpers
Range(s) == {s[i] : i \in 1..Len(s)}

\* A call that forgets the swap: locks source first, destination second.
LockOrderUnsorted(r) == <<r.fromID, r.toID>>

\* The comparison reversed: if fst < snd { fst, snd = snd, fst }
LockOrderDescending(r) == IF r.fromID < r.toID THEN <<r.toID, r.fromID>> ELSE <<r.fromID, r.toID>>

\* fst, snd := fromID, toID; if fst > snd { fst, snd = snd, fst }
LockOrder(r) == IF r.fromID > r.toID THEN <<r.toID, r.fromID>> ELSE <<r.fromID, r.toID>>

Fst(r) == LockOrder(r)[1]
Snd(r) == LockOrder(r)[2]

\* A call that always validates against the first balance read.
SrcBalFirst(t) == fstBal[t]

\* srcBal := fstBal; if fromID == snd { srcBal = sndBal }
SrcBal(t) == IF req[t].fromID = Snd(req[t]) THEN sndBal[t] ELSE fstBal[t]

\* if srcBal < amt { return ErrInsufficientBalance }
InsufficientBalance(srcBal, amt) == srcBal < amt

\* A group identifier generated once and shared by every call.
NewUUIDShared(t) == Cardinality({e.gid : e \in SeedLedger}) + 1

\* gid := uuid.New().String(): a token no other call and no seed row has.
NewUUID(t) == Cardinality({e.gid : e \in SeedLedger}) + t

\* ORDER BY entry_type: ascending string order, 'CREDIT' before 'DEBIT'.
EntryTypeOrder == <<"CREDIT", "DEBIT">>

\* A finite set of rows as a sequence in ascending id order.
RECURSIVE ById(_)
ById(S) ==
  IF S = {} THEN << >>
  ELSE LET e == CHOOSE x \in S : \A y \in S : x.id <= y.id
       IN <<e>> \o ById(S \ {e})

\* The lookup with the append of the scanned row left out: always nil.
findByIKeyNoAppend(L, key) == << >>

\* SELECT ... FROM ledger_entries WHERE idempotency_key = $1 ORDER BY
\* entry_type, over the committed rows; the empty sequence is the nil slice.
findByIKey(L, key) ==
  LET rows(i) == {e \in L : e.key = key /\ e.type = EntryTypeOrder[i]}
  IN ById(rows(1)) \o ById(rows(2))

\* A plain, non-unique index on (idempotency_key, entry_type).
NoUniqueConflict(rows, key, type) == FALSE

\* The unique index idx_ledger_idempotency on (idempotency_key, entry_type).
UniqueConflict(rows, key, type) == \E e \in rows : e.key = key /\ e.type = type

\* The value of wallets row w as the call's transaction sees it: its own
\* update if it made one, the committed row otherwise.
RowValue(t, w) == IF w \in DOMAIN txBal[t] THEN txBal[t][w] ELSE wallets[w]

\* Plain SELECT and unlocked writes: no statement waits for a row.
CanLockAlways(t, w) == TRUE

\* LOCK TABLE wallets instead of row locks: a lock is granted only when no
\* other transaction holds a lock on any wallet.
CanLockTable(t, w) == \A v \in WalletIds : lock[v] \subseteq {t}

\* A row lock is granted when no other transaction holds it.
CanLock(t, w) == lock[w] \subseteq {t}

\* return ...: the call ends; its locals are gone.
Return(t, r) ==
  /\ pc' = [pc EXCEPT ![t] = "done"]
  /\ resp' = [resp EXCEPT ![t] = r]
  /\ req' = [req EXCEPT ![t] = NoReq]
  /\ fstBal' = [fstBal EXCEPT ![t] = 0]
  /\ sndBal' = [sndBal EXCEPT ![t] = 0]

\* The statements run on the pool instead of the transaction: each was
\* committed as it ran, and the deferred Rollback undoes nothing.
RollbackKeepsWrites(t) ==
  /\ lock' = [w \in WalletIds |-> lock[w] \ {t}]
  /\ ledger' = ledger \cup Range(txEntries[t])
  /\ wallets' = [w \in WalletIds |-> RowValue(t, w)]
  /\ txEntries' = [txEntries EXCEPT ![t] = << >>]
  /\ txBal' = [txBal EXCEPT ![t] = << >>]

\* defer tx.Rollback(ctx) on a transaction that was not committed: its
\* inserted and updated rows are discarded and its row locks released.
Rollback(t) ==
  /\ lock' = [w \in WalletIds |-> lock[w] \ {t}]
  /\ txEntries' = [txEntries EXCEPT ![t] = << >>]
  /\ txBal' = [txBal EXCEPT ![t] = << >>]
  /\ UNCHANGED dbVars

\* An error return after BeginTx.
Abort(t, e) == Return(t, ErrResp(e)) /\ Rollback(t)

Goto(t, l) == pc' = [pc EXCEPT ![t] = l]

\* ------------------------------------------------------------------ actions
\* The argument checks skipped for the amount: only the key is examined.
ValidateKeyOnly(r) ==
  IF r.iKey = "" THEN ErrMissingIdempotency ELSE ""

\* The argument checks skipped for the key: only the amount is examined.
ValidateAmountOnly(r) ==
  IF r.amt <= 0 THEN ErrInvalidAmount ELSE ""

\* if amt <= 0 {...}; if iKey == "" {...}: the checks made on the arguments
\* before anything is read or written.
Validate(r) ==
  IF r.amt <= 0 THEN ErrInvalidAmount
  ELSE IF r.iKey = "" THEN ErrMissingIdempotency
  ELSE ""

\* The argument tuples a caller may pass: every combination of the wallets
\* and keys above with a positive amount, and the amounts 0 and -1 with each
\* key for the transfer from wallet 9 to wallet 1.
ArgReqs ==
  {r \in [fromID : ArgWallets, toID : ArgWallets, amt : ArgAmounts \cup {-1},
           iKey : ArgKeys, txType : ArgTxTypes] :
     r.amt > 0 \/ (r.fromID = 9 /\ r.toID = 1)}

\* ExecuteTransfer(ctx, r.fromID, r.toID, r.amt, r.iKey, desc, r.txType) is
\* entered by call t: the argument checks run before the call touches the
\* store.
CallWith(t, r) ==
  /\ pc[t] = "idle"
  /\ IF Validate(r) # ""
     THEN Return(t, ErrResp(Validate(r)))
     ELSE /\ req' = [req EXCEPT ![t] = r]
          /\ Goto(t, "lookup")
          /\ UNCHANGED <<resp, fstBal, sndBal>>
  /\ UNCHANGED <<wallets, ledger, ledgerSeq, lock, txEntries, txBal>>

\* A caller invokes ExecuteTransfer with some arguments.
Call(t) == \E r \in ArgReqs : CallWith(t, r)

\* ------------------------------------------------------------------ gateway
\* wallets.owner_id and wallets.asset_type_id of the seeded wallets 1..9, and
\* asset_types.code of the asset types 1..3.
WalletOwner == <<1, 1, 1, 2, 2, 2, 3, 3, 3>>
WalletAsset == <<1, 2, 3, 1, 2, 3, 1, 2, 3>>
AssetCode   == <<"GOLD_COINS", "DIAMONDS", "LOYALTY_POINTS">>

\* Request bodies posted to /topup, /bonus and /spend: Bob's (user 3)
\* well-formed requests for 200 loyalty points under the keys "k1" and "k2",
\* and the bodies that differ from the first in one field: the key absent,
\* user_id absent (0) or unknown (4), asset_code absent or unknown, the amount
\* absent (0).
GwBody == [userID |-> 3, assetCode |-> "LOYALTY_POINTS", amt |-> 200, iKey |-> "k1"]
GwReqs ==
  {[GwBody EXCEPT !.iKey = k] : k \in {"", "k1", "k2"}}
    \cup {[GwBody EXCEPT !.userID = u] : u \in {0, 4}}
    \cup {[GwBody EXCEPT !.assetCode = a] : a \in {"", "SILVER"}}
    \cup {[GwBody EXCEPT !.amt = 0]}

ErrUserIDRequired    == "user_id is required"
ErrAssetCodeRequired == "asset_code is required"
ErrUserWalletMissing == "user wallet not found"
ErrTreasuryMissing   == "treasury wallet not found for asset"

\* The field checks of the handler, in the order it makes them.
HandlerValidate(g) ==
  IF g.iKey = "" THEN ErrMissingIdempotency
  ELSE IF g.userID = 0 THEN ErrUserIDRequired
  ELSE IF g.assetCode = "" THEN ErrAssetCodeRequired
  ELSE IF g.amt <= 0 THEN ErrInvalidAmount
  ELSE ""

\* SELECT ... FROM wallets w JOIN asset_types a ON a.id = w.asset_type_id
\* WHERE w.owner_id = $1 AND a.code = $2: the ids of the matching rows, at
\* most one by UNIQUE (owner_id, asset_type_id).
GetWalletByOwnerAndAsset(ownerID, asset) ==
  {w \in WalletIds : WalletOwner[w] = ownerID /\ AssetCode[WalletAsset[w]] = asset}

\* A treasury lookup that ignores the asset: the first wallet of user 1.
GetTreasuryWalletAnyAsset(asset) ==
  {w \in WalletIds : WalletOwner[w] = 1 /\ \A v \in WalletIds : WalletOwner[v] = 1 => w <= v}

\* return s.GetWalletByOwnerAndAsset(ctx, 1, asset)
GetTreasuryWallet(asset) == GetWalletByOwnerAndAsset(1, asset)

\* Handler.transfer(w, r, txType, userIsSrc) for the request body g, served
\* by call t: the field checks, the two wallet lookups (either may fail on
\* the store), the choice of direction and the entry into ExecuteTransfer.
\* The request stays in the handler's frame while ExecuteTransfer runs, and
\* what the handler writes back is determined by ExecuteTransfer's result.
transfer(t, g, txType, userIsSrc) ==
  LET uw == GetWalletByOwnerAndAsset(g.userID, g.assetCode)
      tw == GetTreasuryWallet(g.assetCode)
      reject(e) == pc[t] = "idle" /\ Return(t, ErrResp(e))
                   /\ UNCHANGED <<wallets, ledger, ledgerSeq, lock, txEntries, txBal>>
  IN IF HandlerValidate(g) # "" THEN reject(HandlerValidate(g))
     ELSE \/ reject(ErrStore)
          \/ IF uw = {} THEN reject(ErrUserWalletMissing)
             ELSE IF tw = {} THEN reject(ErrTreasuryMissing)
             ELSE \E u \in uw, w \in tw :
                    CallWith(t, [fromID |-> IF userIsSrc THEN u ELSE w,
                                 toID |-> IF userIsSrc THEN w ELSE u,
                                 amt |-> g.amt, iKey |-> g.iKey, txType |-> txType,
                                 userID |-> g.userID, assetCode |-> g.assetCode])

\* POST /api/v1/topup, /bonus and /spend.
TopUp(t) == \E g \in GwReqs : transfer(t, g, "TOPUP", FALSE)
Bonus(t) == \E g \in GwReqs : transfer(t, g, "BONUS", FALSE)
Spend(t) == \E g \in GwReqs : transfer(t, g, "SPEND", TRUE)

\* A duplicate lookup that also compares the transfer: entries found for the
\* key count only if their DEBIT is on fromID for amt; otherwise the call goes
\* on as for a fresh key.
FindByIKeySameTransfer(t) ==
  /\ pc[t] = "lookup"
  /\ LET dup == findByIKey(ledger, req[t].iKey)
         same == \E e \in Range(dup) :
                   e.type = "DEBIT" /\ e.wallet = req[t].fromID /\ e.amount = req[t].amt
     IN IF dup # << >> /\ same
        THEN Return(t, [status |-> "duplicate", err |-> "", gid |-> dup[1].gid,
                        iKey |-> req[t].iKey, entries |-> dup])
        ELSE Goto(t, "lock1") /\ UNCHANGED <<resp, req, fstBal, sndBal>>
  /\ UNCHANGED <<wallets, ledger, ledgerSeq, lock, txEntries, txBal>>

\* dup, err := s.findByIKey(ctx, iKey); if dup != nil { return duplicate };
\* otherwise tx := s.Pool.BeginTx(ctx, ReadCommitted), which opens the
\* transaction and reads or writes no row.
FindByIKey(t) ==
  /\ pc[t] = "lookup"
  /\ LET dup == findByIKey(ledger, req[t].iKey) IN
       IF dup # << >>
       THEN Return(t, [status |-> "duplicate", err |-> "", gid |-> dup[1].gid,
                       iKey |-> req[t].iKey, entries |-> dup])
       ELSE Goto(t, "lock1") /\ UNCHANGED <<resp, req, fstBal, sndBal>>
  /\ UNCHANGED <<wallets, ledger, ledgerSeq, lock, txEntries, txBal>>

\* SELECT balance FROM wallets WHERE id = fst FOR UPDATE
LockFst(t) ==
  /\ pc[t] = "lock1"
  /\ LET w == Fst(req[t]) IN
       IF w \notin WalletIds
       THEN Abort(t, ErrWalletNotFound)
       ELSE /\ CanLock(t, w)
            /\ lock' = [lock EXCEPT ![w] = {t}]
            /\ fstBal' = [fstBal EXCEPT ![t] = RowValue(t, w)]
            /\ Goto(t, "lock2")
            /\ UNCHANGED <<wallets, ledger, req, sndBal, txEntries, txBal, resp>>
  /\ UNCHANGED ledgerSeq

\* The second SELECT with its "no rows" result ignored: the balance keeps its
\* zero value and the call goes on.
LockSndIgnoresNoRows(t) ==
  /\ pc[t] = "lock2"
  /\ LET w == Snd(req[t]) IN
       /\ w \in WalletIds => CanLock(t, w)
       /\ lock' = [v \in WalletIds |-> IF v = w THEN {t} ELSE lock[v]]
       /\ sndBal' = [sndBal EXCEPT ![t] = IF w \in WalletIds THEN RowValue(t, w) ELSE 0]
       /\ Goto(t, "check")
       /\ UNCHANGED <<wallets, ledger, ledgerSeq, req, fstBal, txEntries, txBal, resp>>

\* SELECT balance FROM wallets WHERE id = snd FOR UPDATE
LockSnd(t) ==
  /\ pc[t] = "lock2"
  /\ LET w == Snd(req[t]) IN
       IF w \notin WalletIds
       THEN Abort(t, ErrWalletNotFound)
       ELSE /\ CanLock(t, w)
            /\ lock' = [lock EXCEPT ![w] = {t}]
            /\ sndBal' = [sndBal EXCEPT ![t] = RowValue(t, w)]
            /\ Goto(t, "check")
            /\ UNCHANGED <<wallets, ledger, req, fstBal, txEntries, txBal, resp>>
  /\ UNCHANGED ledgerSeq

\* A balance check that retries in place: on an insufficient balance the
\* transaction is rolled back and the call locks the wallets again.
CheckBalRetries(t) ==
  /\ pc[t] = "check"
  /\ IF InsufficientBalance(SrcBal(t), req[t].amt)
     THEN /\ Rollback(t)
          /\ Goto(t, "lock1")
          /\ UNCHANGED <<req, fstBal, sndBal, resp>>
     ELSE /\ Goto(t, "insDebit")
          /\ UNCHANGED <<wallets, ledger, lock, req, fstBal, sndBal, txEntries, txBal, resp>>
  /\ UNCHANGED ledgerSeq

\* srcBal selection and the balance check.
CheckBal(t) ==
  /\ pc[t] = "check"
  /\ IF InsufficientBalance(SrcBal(t), req[t].amt)
     THEN Abort(t, ErrInsufficientBalance)
     ELSE /\ Goto(t, "insDebit")
          /\ UNCHANGED <<wallets, ledger, lock, req, fstBal, sndBal, txEntries, txBal, resp>>
  /\ UNCHANGED ledgerSeq

\* The row an INSERT INTO ledger_entries ... RETURNING yields.
NewEntry(t, w, type) ==
  [id |-> ledgerSeq + 1, gid |-> NewUUID(t), key |-> req[t].iKey, wallet |-> w,
   type |-> type, amount |-> req[t].amt, txType |-> req[t].txType]

\* An index that is not consulted for rows of open transactions: an INSERT
\* never waits.
InsertNeverWaits(t, type) == FALSE

\* Some other open transaction has inserted, and not yet committed or rolled
\* back, a row with the same (idempotency_key, entry_type): the INSERT waits
\* for that transaction to end.
InsertWaits(t, type) ==
  \E u \in Procs \ {t} : UniqueConflict(Range(txEntries[u]), req[t].iKey, type)

\* INSERT INTO ledger_entries (...) VALUES (gid, iKey, w, type, amt, ...).
\* The sequence value is drawn before the index is probed, so a rejected
\* insert consumes an id.  The row meets the table's other constraints: amt
\* is positive, wallet w is locked and so exists, txType is an allowed value.
InsertEntry(t, w, type, next, e) ==
  /\ ~InsertWaits(t, type)
  /\ ledgerSeq' = ledgerSeq + 1
  /\ IF UniqueConflict(ledger, req[t].iKey, type)
     THEN Abort(t, e)
     ELSE /\ txEntries' = [txEntries EXCEPT ![t] = Append(@, NewEntry(t, w, type))]
          /\ Goto(t, next)
          /\ UNCHANGED <<wallets, ledger, lock, req, fstBal, sndBal, txBal, resp>>

InsertDebit(t) ==
  /\ pc[t] = "insDebit"
  /\ InsertEntry(t, req[t].fromID, "DEBIT", "insCredit", ErrInsertDebit)

\* The credit row inserted with the source wallet's id.
InsertCreditOnSource(t) ==
  /\ pc[t] = "insCredit"
  /\ InsertEntry(t, req[t].fromID, "CREDIT", "updFrom", ErrInsertCredit)

InsertCredit(t) ==
  /\ pc[t] = "insCredit"
  /\ InsertEntry(t, req[t].toID, "CREDIT", "updFrom", ErrInsertCredit)

\* UPDATE wallets SET balance = balance + delta WHERE id = w, under the
\* CHECK (balance >= 0); the UPDATE takes the row lock if not yet held.
UpdateWallet(t, w, delta, next, e) ==
  /\ CanLock(t, w)
  /\ LET new == RowValue(t, w) + delta IN
       IF ~CheckBalance(new)
       THEN Abort(t, e)
       ELSE /\ txBal' = [txBal EXCEPT ![t] = (w :> new) @@ @]
            /\ lock' = [lock EXCEPT ![w] = {t}]
            /\ Goto(t, next)
            /\ UNCHANGED <<wallets, ledger, req, fstBal, sndBal, txEntries, resp>>
  /\ UNCHANGED ledgerSeq

\* The debit of the source balance left out: the call goes on to the credit.
UpdateFromSkipped(t) ==
  /\ pc[t] = "updFrom"
  /\ Goto(t, "updTo")
  /\ UNCHANGED <<wallets, ledger, ledgerSeq, lock, req, fstBal, sndBal, txEntries, txBal, resp>>

\* UPDATE wallets SET balance = balance - $1 WHERE id = $2  (amt, fromID)
UpdateFrom(t) ==
  /\ pc[t] = "updFrom"
  /\ UpdateWallet(t, req[t].fromID, 0 - req[t].amt, "updTo", ErrUpdateFrom)

\* The credit written with the debit's sign, "balance = balance - $1", on a
\* wallets table created without the CHECK.
UpdateToSubtracts(t) ==
  /\ pc[t] = "updTo"
  /\ CanLock(t, req[t].toID)
  /\ txBal' = [txBal EXCEPT ![t] = (req[t].toID :> (RowValue(t, req[t].toID) - req[t].amt)) @@ @]
  /\ lock' = [lock EXCEPT ![req[t].toID] = {t}]
  /\ Goto(t, "commit")
  /\ UNCHANGED <<wallets, ledger, ledgerSeq, req, fstBal, sndBal, txEntries, resp>>

\* UPDATE wallets SET balance = balance + $1 WHERE id = $2  (amt, toID)
UpdateTo(t) ==
  /\ pc[t] = "updTo"
  /\ UpdateWallet(t, req[t].toID, req[t].amt, "commit", ErrUpdateTo)

\* tx.Commit(ctx): the transaction's rows become the committed rows in one
\* step and its locks are released; the call returns "created".
Commit(t) ==
  /\ pc[t] = "commit"
  /\ ledger' = ledger \cup Range(txEntries[t])
  /\ wallets' = [w \in WalletIds |-> RowValue(t, w)]
  /\ lock' = [w \in WalletIds |-> lock[w] \ {t}]
  /\ Return(t, [status |-> "created", err |-> "", gid |-> NewUUID(t),
                  iKey |-> req[t].iKey, entries |-> txEntries[t]])
  /\ txEntries' = [txEntries EXCEPT ![t] = << >>]
  /\ txBal' = [txBal EXCEPT ![t] = << >>]
  /\ UNCHANGED ledgerSeq

\* Positions at which a database round trip is pending.
StorePcs == {"lookup", "lock1", "lock2", "insDebit", "insCredit", "updFrom", "updTo", "commit"}

\* Any database round trip may fail (lost connection, cancelled or expired
\* context): the call returns the wrapped error and the deferred Rollback
\* runs.
StoreFail(t) ==
  /\ pc[t] \in StorePcs
  /\ Abort(t, ErrStore)
  /\ UNCHANGED ledgerSeq

Step(t) ==
  \/ FindByIKey(t)
  \/ LockFst(t)
  \/ LockSnd(t)
  \/ CheckBal(t)
  \/ InsertDebit(t)
  \/ InsertCredit(t)
  \/ UpdateFrom(t)
  \/ UpdateTo(t)
  \/ Commit(t)

Next == \E t \in Procs : Call(t) \/ Step(t) \/ StoreFail(t)

Spec == Init /\ [][Next]_vars

\* Scheduling: every goroutine that can take its next step eventually takes
\* it, and PostgreSQL grants a released row lock to a waiter.  Failures of the
\* store are possible but never required.
FairSpec == Spec /\ \A t \in Procs : WF_vars(Step(t))

\* The program as deployed: every ExecuteTransfer call is made by one of the
\* three handlers.
GatewayNext == \E t \in Procs : TopUp(t) \/ Bonus(t) \/ Spend(t) \/ Step(t) \/ StoreFail(t)

GatewaySpec == Init /\ [][GatewayNext]_vars

\* Calls that reuse a key for different transfers, all debiting Bob's loyalty
\* wallet (9, balance 300): 200 to wallet 1, 500 to wallet 1, 200 to wallet 3
\* and 200 to the missing wallet 10, each under either key.
ReplayReqs ==
  [fromID : {9}, toID : {1, 3, 10}, amt : {200}, iKey : {"k1", "k2"}, txType : {"SPEND"}]
    \cup [fromID : {9}, toID : {1}, amt : {500}, iKey : {"k1", "k2"}, txType : {"SPEND"}]

CallReplay(t) == \E r \in ReplayReqs : CallWith(t, r)

ReplayNext == \E t \in Procs : CallReplay(t) \/ Step(t) \/ StoreFail(t)

ReplaySpec == Init /\ [][ReplayNext]_vars

\* Calls over four wallets: transfers between the gold treasury (1) and Bob's
\* gold wallet (7, balance 750), between the loyalty treasury (3) and Bob's
\* loyalty wallet (9, balance 300), and from wallet 1 to wallet 9, each under
\* either key.
PairReqs ==
  [fromID : {1}, toID : {7, 9}, amt : {200}, iKey : {"k1", "k2"}, txType : {"TOPUP"}]
    \cup [fromID : {3}, toID : {9}, amt : {200}, iKey : {"k1", "k2"}, txType : {"TOPUP"}]
    \cup [fromID : {7}, toID : {1}, amt : {200}, iKey : {"k1", "k2"}, txType : {"SPEND"}]
    \cup [fromID : {9}, toID : {3}, amt : {200}, iKey : {"k1", "k2"}, txType : {"SPEND"}]

CallPair(t) == \E r \in PairReqs : CallWith(t, r)

PairNext == \E t \in Procs : CallPair(t) \/ Step(t) \/ StoreFail(t)

PairSpec == Init /\ [][PairNext]_vars

\* ------------------------------------------------------- derived notions
\* The ledger rows added since the seed.
NewLedger == ledger \ SeedLedger

KeyEntries(L, k) == {e \in L : e.key = k}

Succeeded(t) == resp[t].status \in {"created", "duplicate"}

\* Every cached balance is its seeded value plus the credits minus the debits
\* of the rows added since the seed.
BalancesFollowLedger ==
  \A w \in WalletIds :
    wallets[w] = SeedBalance[w] + Credits(NewLedger, w) - Debits(NewLedger, w)

\* The calls whose transaction the call t is waiting for: the holder of a row
\* lock it requests, or the inserter of an uncommitted conflicting row.
BlockedOn(t) ==
  LET lockWait(w) == IF w \in WalletIds THEN lock[w] \ {t} ELSE {}
      rowWait(type) == {u \in Procs \ {t} : UniqueConflict(Range(txEntries[u]), req[t].iKey, type)}
  IN CASE pc[t] = "lock1"     -> lockWait(Fst(req[t]))
       [] pc[t] = "lock2"     -> lockWait(Snd(req[t]))
       [] pc[t] = "insDebit"  -> rowWait("DEBIT")
       [] pc[t] = "insCredit" -> rowWait("CREDIT")
       [] pc[t] = "updFrom"   -> lockWait(req[t].fromID)
       [] pc[t] = "updTo"     -> lockWait(req[t].toID)
       [] OTHER               -> {}

RECURSIVE WaitClosure(_, _)
WaitClosure(S, n) ==
  IF n = 0 THEN S
  ELSE WaitClosure(S \cup UNION {BlockedOn(u) : u \in S}, n - 1)

NoWaitCycle == \A t \in Procs : t \notin WaitClosure(BlockedOn(t), NumCalls)

\* ------------------------------------------------------------------ claims

\* C1: every wallet's stored balance equals the sum of its CREDIT entries
\* minus the sum of its DEBIT entries, from the seeded state on.
C1_BalanceEqualsLedgerSum ==
  \A w \in WalletIds : wallets[w] = Credits(ledger, w) - Debits(ledger, w)

\* C2: every transaction-group identifier in the committed ledger has exactly
\* one DEBIT and exactly one CREDIT entry, with the same amount and the same
\* idempotency key.
C2_GroupIsOnePair ==
  \A g \in {e.gid : e \in ledger} :
    LET D == {e \in ledger : e.gid = g /\ e.type = "DEBIT"}
        C == {e \in ledger : e.gid = g /\ e.type = "CREDIT"}
    IN /\ Cardinality(D) = 1
       /\ Cardinality(C) = 1
       /\ {e \in ledger : e.gid = g} = D \cup C
       /\ \A d \in D, c \in C : d.amount = c.amount /\ d.key = c.key

\* C2 witness: two transfers made by calls are committed beside the seeded ones.
C2_Witness ==
  Cardinality({e.gid : e \in NewLedger}) = 2

\* C3: however many calls carry one idempotency key, in any interleaving, the
\* committed ledger holds at most one DEBIT/CREDIT pair for the key, exactly
\* one once any of the calls has returned success, and the balances are those
\* of applying each committed pair once.
C3_OnePairPerKey ==
  /\ \A k \in {e.key : e \in NewLedger} :
       LET D == {e \in KeyEntries(ledger, k) : e.type = "DEBIT"}
           C == {e \in KeyEntries(ledger, k) : e.type = "CREDIT"}
       IN /\ Cardinality(D) = 1
          /\ Cardinality(C) = 1
          /\ KeyEntries(ledger, k) = D \cup C
          /\ \A d \in D, c \in C : d.amount = c.amount /\ d.gid = c.gid
  /\ \A t \in Procs :
       Succeeded(t) => Range(resp[t].entries) = KeyEntries(ledger, resp[t].iKey)
  /\ BalancesFollowLedger

\* C3 witness: two calls with one key have both returned success, one having
\* created the transfer and the other having found it, and the transfer moved
\* 200 from wallet 9 to wallet 1 once.
C3_Witness ==
  \E t, u \in Procs :
    /\ resp[t].status = "created"
    /\ resp[u].status = "duplicate"
    /\ resp[u].gid = resp[t].gid
    /\ wallets[9] = SeedBalance[9] - 200
    /\ wallets[1] = SeedBalance[1] + 200

\* The step of call t that leaves position l without a failure of the store.
Leaves(t, l) == pc[t] = l /\ pc'[t] # l /\ resp'[t].err # ErrStore

\* C4: a call whose key already has committed entries returns "duplicate"
\* with the group identifier and the entries of the original transfer, and
\* adds no ledger entry and changes no balance.
C4_ReplayIsDuplicate ==
  [][\A t \in Procs :
       (Leaves(t, "lookup") /\ KeyEntries(ledger, req[t].iKey) # {}) =>
         /\ pc'[t] = "done"
         /\ resp'[t].status = "duplicate"
         /\ Range(resp'[t].entries) = KeyEntries(ledger, req[t].iKey)
         /\ \A e \in KeyEntries(ledger, req[t].iKey) : e.gid = resp'[t].gid
         /\ ledger' = ledger
         /\ wallets' = wallets]_vars

\* C4 witness: a call has returned "duplicate" for a transfer that another
\* call created.
C4_Witness ==
  \E t, u \in Procs :
    /\ resp[t].status = "duplicate"
    /\ resp[u].status = "created"
    /\ resp[t].iKey = resp[u].iKey

\* C5: a call whose ledger insertion hits the uniqueness constraint on
\* (idempotency key, entry kind) never returns that failure to its caller.
C5_RaceLoserGetsDuplicate ==
  \A t \in Procs : resp[t].err \notin {ErrInsertDebit, ErrInsertCredit}

\* C6: no wallet balance, committed or written by an open transaction, is
\* below 0.
C6_NoNegativeBalance ==
  /\ \A w \in WalletIds : wallets[w] >= 0
  /\ \A t \in Procs : \A w \in DOMAIN txBal[t] : txBal[t][w] >= 0

\* C6 witness: two transfers debiting wallet 9 together exceed its balance;
\* one was committed and the other was refused.
C6_Witness ==
  \E t, u \in Procs :
    /\ resp[t].status = "created"
    /\ resp[t].entries[1].wallet = 9
    /\ resp[u].err = ErrInsufficientBalance
    /\ wallets[9] = SeedBalance[9] - 200

\* C7: a call with a fresh key and two existing wallets whose amount exceeds
\* the source balance fails with InsufficientBalance, and the balances and the
\* ledger are unchanged.
C7_InsufficientBalanceNoEffect ==
  [][\A t \in Procs :
       (Leaves(t, "check") /\ wallets[req[t].fromID] < req[t].amt) =>
         /\ pc'[t] = "done"
         /\ resp'[t] = ErrResp(ErrInsufficientBalance)
         /\ ledger' = ledger
         /\ wallets' = wallets
         /\ txEntries'[t] = << >>
         /\ txBal'[t] = << >>]_vars

\* C7 witness: a call has failed with InsufficientBalance.
C7_Witness ==
  \E t \in Procs : pc[t] = "done" /\ resp[t] = ErrResp(ErrInsufficientBalance)

\* C8: under fair scheduling every call that has started terminates, and no
\* state has a cycle of calls each waiting for a lock or row held by another.
C8_EveryCallTerminates ==
  /\ \A t \in Procs : [](pc[t] # "idle" => <>(pc[t] = "done"))
  /\ []NoWaitCycle

\* C8 witness: two transfers in opposite directions between wallets 1 and 9
\* (scenario E) have both been committed.
C8_Witness ==
  \E t, u \in Procs :
    /\ resp[t].status = "created" /\ resp[u].status = "created"
    /\ resp[t].entries[1].wallet = 1 /\ resp[t].entries[2].wallet = 9
    /\ resp[u].entries[1].wallet = 9 /\ resp[u].entries[2].wallet = 1

\* C9: the committed state holds, of each call's transfer, either both ledger
\* entries and both balance updates or nothing; a call that has not returned
\* "created" (still running, failed or cancelled) has left nothing.
C9_AllOrNothing ==
  /\ \A t \in Procs :
       LET E == {e \in ledger : e.gid = NewUUID(t)} IN
         /\ E = {} \/ ({e.type : e \in E} = {"DEBIT", "CREDIT"} /\ Cardinality(E) = 2)
         /\ resp[t].status # "created" => E = {}
  /\ BalancesFollowLedger

\* C9 witness: a call failed on the store after its transaction had inserted
\* a ledger row, and the committed state is still the seeded one.
C9_Witness ==
  /\ \E t \in Procs : resp[t].err = ErrStore
  /\ \A t \in Procs : pc[t] \in {"idle", "done"}
  /\ ledgerSeq > Cardinality(SeedLedger)
  /\ ledger = SeedLedger
  /\ wallets = SeedBalance

\* C10: a call whose source and destination are the same existing wallet,
\* with a fresh key and an amount the wallet covers, fails with
\* InvalidTransfer, adds no ledger entry and changes no balance.
C10_SelfTransferRejected ==
  [][\A t \in Procs :
       ( /\ pc[t] \notin {"idle", "done"}
         /\ pc'[t] = "done"
         /\ resp'[t].err # ErrStore
         /\ req[t].fromID = req[t].toID
         /\ req[t].fromID \in WalletIds
         /\ KeyEntries(ledger, req[t].iKey) = {}
         /\ wallets[req[t].fromID] >= req[t].amt ) =>
         /\ resp'[t] = ErrResp("invalid transfer")
         /\ ledger' = ledger
         /\ wallets' = wallets]_vars

\* The committed rows, the row locks and every open transaction's rows are
\* the same before and after the step.
StoreUntouched == UNCHANGED <<wallets, ledger, ledgerSeq, lock, txEntries, txBal>>

\* C11: a call with amount <= 0 fails with InvalidAmount in its first step,
\* before any idempotency lookup, transaction or lock, and the wallets and the
\* ledger are unchanged.
C11_NonPositiveAmountRejected ==
  [][\A t \in Procs :
       (pc[t] = "idle" /\ pc'[t] # "idle") =>
         \A r \in ArgReqs :
           (r.amt <= 0 /\ CallWith(t, r)) =>
             /\ pc'[t] = "done"
             /\ resp'[t] = ErrResp(ErrInvalidAmount)
             /\ StoreUntouched]_vars

\* C11 witness: a call was refused for its amount while another call's
\* transaction holds a row lock and an uncommitted ledger row.
C11_Witness ==
  \E t, u \in Procs :
    /\ pc[t] = "done" /\ resp[t].err = ErrInvalidAmount
    /\ \E w \in WalletIds : lock[w] = {u}
    /\ txEntries[u] # << >>

\* C12: a call with a positive amount and an empty idempotency key fails with
\* MissingIdempotencyKey in its first step, before any mutation or lock, and
\* the wallets and the ledger are unchanged.
C12_EmptyKeyRejected ==
  [][\A t \in Procs :
       (pc[t] = "idle" /\ pc'[t] # "idle") =>
         \A r \in ArgReqs :
           (r.amt > 0 /\ r.iKey = "" /\ CallWith(t, r)) =>
             /\ pc'[t] = "done"
             /\ resp'[t] = ErrResp(ErrMissingIdempotency)
             /\ StoreUntouched]_vars

\* C12 witness: a call was refused for its empty key while another call's
\* transaction holds a row lock and an uncommitted ledger row.
C12_Witness ==
  \E t, u \in Procs :
    /\ pc[t] = "done" /\ resp[t].err = ErrMissingIdempotency
    /\ \E w \in WalletIds : lock[w] = {u}
    /\ txEntries[u] # << >>

\* A wallet identifier of call t's request names no wallets row.
SomeWalletMissing(t) == req[t].fromID \notin WalletIds \/ req[t].toID \notin WalletIds

\* C13: a call past the duplicate lookup whose source or destination wallet
\* does not exist fails with WalletNotFound at the first missing row it
\* selects; its transaction is rolled back, no ledger entry is added and no
\* balance changes, that of the other, existing and already locked wallet
\* included.
C13_MissingWalletRejected ==
  [][\A t \in Procs :
       (pc[t] \in {"lock1", "lock2"} /\ SomeWalletMissing(t) /\ Leaves(t, pc[t])) =>
         IF pc[t] = "lock1" /\ Fst(req[t]) \in WalletIds
         THEN pc'[t] = "lock2" /\ UNCHANGED dbVars
         ELSE /\ pc'[t] = "done"
              /\ resp'[t] = ErrResp(ErrWalletNotFound)
              /\ UNCHANGED dbVars
              /\ txEntries'[t] = << >>
              /\ txBal'[t] = << >>
              /\ \A w \in WalletIds : t \notin lock'[w]]_vars

\* C13 witness: a call has failed with WalletNotFound and the committed
\* state is the seeded one.
C13_Witness ==
  \E t \in Procs :
    /\ pc[t] = "done" /\ resp[t] = ErrResp(ErrWalletNotFound)
    /\ ledger = SeedLedger
    /\ wallets = SeedBalance

\* The position that follows l on the path to the commit.
NextPc(l) ==
  CASE l = "lookup"    -> "lock1"
    [] l = "lock1"     -> "lock2"
    [] l = "lock2"     -> "check"
    [] l = "check"     -> "insDebit"
    [] l = "insDebit"  -> "insCredit"
    [] l = "insCredit" -> "updFrom"
    [] l = "updFrom"   -> "updTo"
    [] l = "updTo"     -> "commit"
    [] l = "commit"    -> "done"

\* Call t's request names two distinct existing wallets, its key has no
\* committed entry, and its amount (positive, by the argument checks) is
\* covered by the committed source balance.
Transferable(t) ==
  /\ req[t].fromID \in WalletIds /\ req[t].toID \in WalletIds
  /\ req[t].fromID # req[t].toID
  /\ KeyEntries(ledger, req[t].iKey) = {}
  /\ req[t].amt <= wallets[req[t].fromID]

\* C14: a call with a fresh key, two distinct existing wallets and
\* 0 < amount <= source balance, with no store failure, advances at every
\* step, changes no committed row before its last step, and in its last step
\* returns "created", lowers the source balance by amount, raises the
\* destination balance by amount and adds exactly two ledger entries, a DEBIT
\* of amount on the source and a CREDIT of amount on the destination, both
\* with the caller's key and one group identifier no earlier entry has.
C14_TransferCreated ==
  [][\A t \in Procs :
       (pc[t] \in StorePcs \cup {"check"} /\ Transferable(t) /\ Leaves(t, pc[t])) =>
         /\ pc'[t] = NextPc(pc[t])
         /\ IF pc[t] # "commit"
            THEN UNCHANGED dbVars
            ELSE LET r == req[t]
                     D == {e \in ledger' \ ledger : e.type = "DEBIT"}
                     C == {e \in ledger' \ ledger : e.type = "CREDIT"}
                 IN /\ resp'[t].status = "created"
                    /\ resp'[t].iKey = r.iKey
                    /\ wallets' = [wallets EXCEPT ![r.fromID] = @ - r.amt,
                                                  ![r.toID] = @ + r.amt]
                    /\ ledger \subseteq ledger'
                    /\ Cardinality(ledger' \ ledger) = 2
                    /\ Cardinality(D) = 1 /\ Cardinality(C) = 1
                    /\ \A d \in D, c \in C :
                         /\ d.wallet = r.fromID /\ c.wallet = r.toID
                         /\ d.amount = r.amt /\ c.amount = r.amt
                         /\ d.key = r.iKey /\ c.key = r.iKey
                         /\ d.gid = c.gid /\ d.gid = resp'[t].gid
                         /\ d.gid \notin {e.gid : e \in ledger}]_vars

\* C14 witness: a call moved 200 from wallet 9 to wallet 1 and returned
\* "created"; nothing else was committed.
C14_Witness ==
  \E t \in Procs :
    /\ resp[t].status = "created"
    /\ resp[t].entries[1].wallet = 9 /\ resp[t].entries[2].wallet = 1
    /\ wallets = [SeedBalance EXCEPT ![9] = @ - 200, ![1] = @ + 200]
    /\ Cardinality(NewLedger) = 2

\* The wallets rows whose lock call t holds.
Held(t) == {w \in WalletIds : t \in lock[w]}

\* The wallets row whose lock call t's next statement requests and t does not
\* hold yet, if any.
Requested(t) ==
  LET w == CASE pc[t] = "lock1"   -> Fst(req[t])
             [] pc[t] = "lock2"   -> Snd(req[t])
             [] pc[t] = "updFrom" -> req[t].fromID
             [] pc[t] = "updTo"   -> req[t].toID
             [] OTHER             -> 0
  IN {w} \cap (WalletIds \ Held(t))

\* C15: in every state, whichever wallet is the source, a call that holds a
\* wallet lock and requests or waits for another requests a wallet with a
\* greater identifier; and every lock a step acquires is on a wallet with a
\* greater identifier than every lock the call already held.
C15_LocksAscending ==
  /\ [](\A t \in Procs : \A w \in Requested(t) : \A v \in Held(t) : v < w)
  /\ [][\A t \in Procs : \A w \in WalletIds :
          (t \notin lock[w] /\ t \in lock'[w]) => \A v \in Held(t) : v < w]_vars

\* C15 witness: a call moving funds from wallet 9 to wallet 1 holds the lock
\* on wallet 1 and waits for wallet 9, which another call holds.
C15_Witness ==
  \E t, u \in Procs :
    /\ pc[t] = "lock2"
    /\ req[t].fromID = 9 /\ req[t].toID = 1
    /\ Held(t) = {1}
    /\ Requested(t) = {9}
    /\ lock[9] = {u}

\* The balances after moving amt from wallet f to wallet d in balances b.
ApplyTransfer(b, f, d, amt) ==
  [w \in WalletIds |-> b[w] - (IF w = f THEN amt ELSE 0) + (IF w = d THEN amt ELSE 0)]

\* C16: transfers sharing a wallet are serialized.  A wallet row has at most
\* one lock holder; a call reads a balance (SELECT ... FOR UPDATE) or writes
\* one (UPDATE) only when no other call holds the row's lock, and what it
\* reads is the committed balance; from the balance check to the commit the
\* balance it validated is the committed balance of the source; and each
\* commit changes the committed balances exactly as running the transfer
\* alone on them would, so the balances are those of running the committed
\* transfers one after another in commit order.
C16_TransfersSerialized ==
  /\ [](\A w \in WalletIds : Cardinality(lock[w]) <= 1)
  /\ [](\A t \in Procs :
          pc[t] \in {"check", "insDebit", "insCredit", "updFrom", "updTo", "commit"} =>
            /\ Held(t) = {req[t].fromID, req[t].toID}
            /\ SrcBal(t) = wallets[req[t].fromID])
  /\ [][\A t \in Procs :
          /\ (Leaves(t, "lock1") /\ pc'[t] = "lock2") =>
                /\ lock[Fst(req[t])] \subseteq {t}
                /\ fstBal'[t] = wallets[Fst(req[t])]
          /\ (Leaves(t, "lock2") /\ pc'[t] = "check") =>
                /\ lock[Snd(req[t])] \subseteq {t}
                /\ sndBal'[t] = wallets[Snd(req[t])]
          /\ \A w \in WalletIds :
                (w \in DOMAIN txBal'[t] /\ w \notin DOMAIN txBal[t]) => lock[w] = {t}
          /\ Leaves(t, "commit") =>
                /\ req[t].amt <= wallets[req[t].fromID]
                /\ wallets' = ApplyTransfer(wallets, req[t].fromID, req[t].toID, req[t].amt)]_vars
  /\ []BalancesFollowLedger

\* C16 witness: two transfers that both debit wallet 1 and credit wallet 9
\* have both been committed, and both amounts are in the balances.
C16_Witness ==
  /\ \A t \in Procs : resp[t].status = "created" /\ resp[t].entries[1].wallet = 1
                       /\ resp[t].entries[2].wallet = 9
  /\ wallets[9] = SeedBalance[9] + 400
  /\ wallets[1] = SeedBalance[1] - 400

\* C17: every successful result, "created" or "duplicate", lists exactly two
\* entries, the DEBIT entry first and the CREDIT entry second.
C17_EntriesDebitThenCredit ==
  \A t \in Procs :
    Succeeded(t) =>
      /\ Len(resp[t].entries) = 2
      /\ resp[t].entries[1].type = "DEBIT"
      /\ resp[t].entries[2].type = "CREDIT"

\* Call t serves a gateway request (its frame holds the request body).
ViaGateway(t) == "userID" \in DOMAIN req[t]

\* C18: every transfer committed for a gateway request on (user, asset) has,
\* for a top-up or a bonus, its DEBIT on the wallet user 1 (the treasury)
\* owns in that asset and its CREDIT on the wallet the user owns in that
\* asset, and for a spend its DEBIT on the user's wallet and its CREDIT on the
\* treasury's; both wallets have the requested asset type.
C18_GatewayDirection ==
  [][\A t \in Procs :
       (ViaGateway(t) /\ Leaves(t, "commit")) =>
         LET r == req[t]
             new == ledger' \ ledger
             isUser(w) == WalletOwner[w] = r.userID
             isTreasury(w) == WalletOwner[w] = 1
         IN /\ resp'[t].status = "created"
            /\ new # {}
            /\ \A e \in new :
                 /\ AssetCode[WalletAsset[e.wallet]] = r.assetCode
                 /\ e.txType = r.txType
                 /\ r.txType \in {"TOPUP", "BONUS"} =>
                      IF e.type = "DEBIT" THEN isTreasury(e.wallet) ELSE isUser(e.wallet)
                 /\ r.txType = "SPEND" =>
                      IF e.type = "DEBIT" THEN isUser(e.wallet) ELSE isTreasury(e.wallet)
            /\ {e.type : e \in new} = {"DEBIT", "CREDIT"}]_vars

\* C18 witness: a top-up and a spend for Bob in loyalty points have both
\* been committed: 200 went from wallet 3 to wallet 9 and 200 from wallet 9 to
\* wallet 3.
C18_Witness ==
  \E t, u \in Procs :
    /\ resp[t].status = "created" /\ resp[u].status = "created"
    /\ resp[t].entries[1].txType = "TOPUP"
    /\ resp[t].entries[1].wallet = 3 /\ resp[t].entries[2].wallet = 9
    /\ resp[u].entries[1].txType = "SPEND"
    /\ resp[u].entries[1].wallet = 9 /\ resp[u].entries[2].wallet = 3

\* The state of call t's attempt: the last milestone of ExecuteTransfer it
\* has passed.  A call that returned "duplicate" ended at the idempotency
\* check.
Phase(p, r) ==
  CASE p = "idle"                                  -> "NotStarted"
    [] p = "lookup"                                -> "Validating"
    [] p \in {"lock1", "lock2"}                    -> "IdempotencyChecked"
    [] p = "check"                                 -> "Locked"
    [] p \in {"insDebit", "insCredit", "updFrom", "updTo", "commit"}
                                                   -> "BalanceValidated"
    [] p = "done" /\ r.status = "created"          -> "Committed"
    [] p = "done" /\ r.status = "duplicate"        -> "IdempotencyChecked"
    [] p = "done" /\ r.status = "error"            -> "Rejected"

\* The moves of an attempt: one state forward, or to Rejected.
PhaseMoves ==
  { <<"NotStarted", "Validating">>,
    <<"Validating", "IdempotencyChecked">>,
    <<"IdempotencyChecked", "Locked">>,
    <<"Locked", "BalanceValidated">>,
    <<"BalanceValidated", "Committed">> }
  \cup { <<a, "Rejected">> :
           a \in {"NotStarted", "Validating", "IdempotencyChecked", "Locked", "BalanceValidated"} }

\* C19: every step of a call leaves its attempt in the same state, moves it
\* one state forward along Validating, IdempotencyChecked, Locked,
\* BalanceValidated, Committed, or moves it to Rejected; it is rejected exactly
\* when a check or the store fails; a call that has returned stays as it is,
\* so Committed and Rejected are terminal and no attempt goes back.
C19_ForwardOnly ==
  [][\A t \in Procs :
       LET a == Phase(pc[t], resp[t])
           b == Phase(pc'[t], resp'[t])
       IN /\ a = b \/ <<a, b>> \in PhaseMoves
          /\ pc[t] = "done" => (pc'[t] = "done" /\ resp'[t] = resp[t])]_vars

\* C19 witness: one call is Committed, and another, which passed the
\* idempotency check and locked both wallets, was Rejected at the balance
\* check.
C19_Witness ==
  \E t, u \in Procs :
    /\ Phase(pc[t], resp[t]) = "Committed"
    /\ Phase(pc[u], resp[u]) = "Rejected"
    /\ resp[u].err = ErrInsufficientBalance

\* The ledger_entries rows that exist in a state: the committed ones and
\* those inserted by open transactions.
AllRows == ledger \cup UNION {Range(txEntries[t]) : t \in Procs}

\* C20: the ledger is append-only and unique per (idempotency key, entry
\* kind).  Every step keeps every committed entry with all its field values,
\* and commits only rows with identifiers no committed entry has; in every
\* state no two distinct rows, committed or inserted by an open transaction,
\* have the same key and kind or the same identifier, so a key has at most
\* one DEBIT and one CREDIT entry.
C20_LedgerAppendOnly ==
  /\ [][/\ ledger \subseteq ledger'
        /\ \A e \in ledger' \ ledger : \A f \in ledger : e.id # f.id]_vars
  /\ [](\A e, f \in AllRows :
          (e.id = f.id \/ (e.key = f.key /\ e.type = f.type)) => e = f)

\* C20 witness: a transfer was committed after the seed, a concurrent call
\* with the same key was refused by the unique index, and the eight seeded
\* entries are still there.
C20_Witness ==
  /\ Cardinality(NewLedger) = 2
  /\ SeedLedger \subseteq ledger
  /\ \E t \in Procs : resp[t].err \in {ErrInsertDebit, ErrInsertCredit}

\* Call t is between its entry and its return.
InFlight(t) == pc[t] \in StorePcs \cup {"check"}

\* The calls t and u name no wallet in common.
DisjointWallets(t, u) ==
  {req[t].fromID, req[t].toID} \cap {req[u].fromID, req[u].toID} = {}

\* C21 as stated: a call in flight whose wallet pair is disjoint from that of
\* every other call in flight can always take its next step.
C21_DisjointNeverBlock ==
  \A t \in Procs :
    (InFlight(t) /\ \A u \in Procs \ {t} : InFlight(u) => DisjointWallets(t, u))
      => ENABLED Step(t)

\* C21, amended: a call in flight whose wallet pair is disjoint from that of
\* every other call in flight, and whose idempotency key differs from theirs,
\* can always take its next step, whatever the progress of the others.
C21_DisjointDistinctKeysNeverBlock ==
  \A t \in Procs :
    (InFlight(t) /\ \A u \in Procs \ {t} :
        InFlight(u) => (DisjointWallets(t, u) /\ req[t].iKey # req[u].iKey))
      => ENABLED Step(t)

\* C21 witness: a transfer between wallets 1 and 7 and a transfer between
\* wallets 3 and 9, under different keys, both hold their two row locks and
\* both uncommitted ledger rows at once.
C21_Witness ==
  \E t, u \in Procs :
    /\ pc[t] = "commit" /\ pc[u] = "commit"
    /\ Held(t) = {1, 7} /\ Held(u) = {3, 9}
    /\ req[t].iKey # req[u].iKey
    /\ Len(txEntries[t]) = 2 /\ Len(txEntries[u]) = 2

\* C22: the duplicate check looks at the key alone.  A call that makes the
\* lookup when its key has committed entries returns "duplicate" with exactly
\* those entries and their group identifier and leaves the committed rows,
\* the sequence, the locks and every open transaction as they are, whether
\* or not its wallets and amount are those of the entries, its destination
\* exists, or the source balance covers its amount.
C22_DuplicateByKeyAlone ==
  [][\A t \in Procs :
       (Leaves(t, "lookup") /\ KeyEntries(ledger, req[t].iKey) # {}) =>
         /\ pc'[t] = "done"
         /\ resp'[t].status = "duplicate"
         /\ resp'[t].iKey = req[t].iKey
         /\ Range(resp'[t].entries) = KeyEntries(ledger, req[t].iKey)
         /\ \A e \in KeyEntries(ledger, req[t].iKey) : e.gid = resp'[t].gid
         /\ StoreUntouched]_vars

\* C22 witness: a call returned "duplicate" with the entries of a committed
\* transfer of 200 from wallet 9 to wallet 3 while wallet 9 holds 100, less
\* than the amount of every request, and nothing else was committed.
C22_Witness ==
  \E t \in Procs :
    /\ resp[t].status = "duplicate"
    /\ \E e \in Range(resp[t].entries) : e.type = "CREDIT" /\ e.wallet = 3 /\ e.amount = 200
    /\ wallets[9] = 100
    /\ Cardinality(NewLedger) = 2

\* The sum of the balances b of the wallets 1..n.
RECURSIVE SumBalances(_, _)
SumBalances(b, n) == IF n = 0 THEN 0 ELSE b[n] + SumBalances(b, n - 1)

\* The total of the balances after the seed script.
SeedTotal == SumBalances(SeedBalance, Cardinality(WalletIds))

\* C23: in every state the committed wallet balances add up to the total of
\* the seeded balances, whatever calls have committed, failed or are running,
\* and no balance exceeds that total.
C23_TotalSupplyConstant ==
  /\ SumBalances(wallets, Cardinality(WalletIds)) = SeedTotal
  /\ \A w \in WalletIds : wallets[w] <= SeedTotal

\* C23 witness: one call committed a transfer, another failed on the store
\* after its transaction had inserted a ledger row, and a balance differs
\* from its seeded value.
C23_Witness ==
  \E t, u \in Procs :
    /\ resp[t].status = "created"
    /\ resp[u].err = ErrStore
    /\ ledgerSeq > Cardinality(SeedLedger) + 2
    /\ \E w \in WalletIds : wallets[w] # SeedBalance[w]

====
